---- MODULE Spec2Model ----
(***************************************************************************)
(* A model of rust_json: the Tokenizer of src/src/tokenizer.rs and the     *)
(* recursive-descent Parser of src/src/parser.rs, with the older copy of   *)
(* Parser::parse that src/src/main.rs still carries.                       *)
(*                                                                         *)
(* Text is a sequence of characters.  A Rust String is UTF-8: the model    *)
(* keeps the difference between a character index (chars().nth, skip,      *)
(* position) and a byte index (slicing, split_at, len, Regex::find_at),    *)
(* because the tokenizer uses one cursor for both.  A slice that does not  *)
(* fall on character boundaries panics; a panic is a third outcome next    *)
(* to Ok and Err.                                                          *)
(***************************************************************************)
EXTENDS Integers, Sequences, FiniteSets, TLC

VARIABLES
    input,      \* Tokenizer.input, as a sequence of characters
    toffset,    \* Tokenizer.offset
    ttokens,    \* Tokenizer.tokens
    tresult,    \* what tokenize has returned: Running, Ok, Err or Panic
    tokens,     \* Parser.tokens
    offset,     \* Parser.offset
    stack,      \* the active parse_array / parse_object calls, innermost last
    pc,         \* where the parser's control is
    parsed,     \* the local `parsed` of Parser::parse
    presult,    \* what parse has returned: Running, Ok, Err or Panic
    args,       \* env::args() of main: the program's name, then its arguments
    printed,    \* what main has printed, line by line
    status,     \* the exit status of the process, once it has one
    mpc         \* where the control of main is

tvars == <<input, toffset, ttokens, tresult>>
pvars == <<tokens, offset, stack, pc, parsed, presult>>
cvars == <<args, printed, status, mpc>>
vars == <<input, toffset, ttokens, tresult, tokens, offset, stack, pc, parsed, presult,
          args, printed, status, mpc>>

(***************************************************************************)
(* Bounds of the model.                                                    *)
(***************************************************************************)
\* the input text of the tokenizer is a concatenation of at most this many pieces
MaxPieces == 3
\* the token sequence given to the parser is a concatenation of at most this many pieces
MaxTokenPieces == 3

(***************************************************************************)
(* Characters and bytes.                                                   *)
(***************************************************************************)
\* U+0663 ARABIC-INDIC DIGIT THREE: not ASCII, two bytes in UTF-8, and a
\* decimal digit for the regex class \d (Unicode Nd)
NonAsciiDigit == "U+0663"
LeadByte == "xD9"
ContByte == "xA3"

Utf8(c) == IF c = NonAsciiDigit THEN <<LeadByte, ContByte>> ELSE <<c>>

RECURSIVE Bytes(_)
Bytes(chars) ==
    IF chars = <<>> THEN <<>> ELSE Utf8(Head(chars)) \o Bytes(Tail(chars))

AsciiDigits == {"0", "1", "2", "3", "4", "5", "6", "7", "8", "9"}
NonZeroDigits == AsciiDigits \ {"0"}
is_ascii_digit(c) == c \in AsciiDigits
is_ascii_whitespace(c) == c \in {" ", "\t", "\n", "\r"}

\* the byte at 0-based index i, or EOF past the end
At(b, i) == IF i >= 0 /\ i < Len(b) THEN b[i + 1] ELSE "EOF"

\* str::is_char_boundary
IsCharBoundary(b, i) ==
    \/ i = 0
    \/ i = Len(b)
    \/ (i > 0 /\ i < Len(b) /\ b[i + 1] # ContByte)

\* &s[lo..hi] panics unless this holds
SliceOk(b, lo, hi) ==
    lo <= hi /\ hi <= Len(b) /\ IsCharBoundary(b, lo) /\ IsCharBoundary(b, hi)

Slice(b, lo, hi) == SubSeq(b, lo + 1, hi)

StartsWith(b, prefix) ==
    Len(prefix) <= Len(b) /\ SubSeq(b, 1, Len(prefix)) = prefix

(***************************************************************************)
(* Token, TokenizeError and the three outcomes of a step.                  *)
(***************************************************************************)
Token(type_, value, off) == [type_ |-> type_, value |-> value, offset |-> off]

TokenizeError(off, message) == [offset |-> off, message |-> message]

Ok(token) == [r |-> "Ok", token |-> token]
Err(error) == [r |-> "Err", error |-> error]
Panic == [r |-> "Panic"]
Running == [r |-> "Running"]

(***************************************************************************)
(* Tokenizer::tokenize_literal                                             *)
(***************************************************************************)
tokenize_literal(chars, off, literal, type_) ==
    LET b == Bytes(chars) IN
    IF ~IsCharBoundary(b, off)
    THEN Panic      \* split_at
    ELSE IF StartsWith(Slice(b, off, Len(b)), literal)
         THEN Ok(Token(type_, literal, off))
         ELSE Err(TokenizeError(off, [kind |-> "ExpectedLiteral", literal |-> literal]))

(***************************************************************************)
(* The regex of tokenize_number, on bytes: an optional minus, an integer   *)
(* part (0, or 1-9 and then any digits), an optional fraction (a dot and   *)
(* digits), an optional exponent (e or E, an optional sign, digits).       *)
(***************************************************************************)
\* the number of bytes \d matches at i: an ASCII digit, or a Unicode digit
DigitLenAt(b, i) ==
    IF At(b, i) \in AsciiDigits THEN 1
    ELSE IF At(b, i) = LeadByte /\ At(b, i + 1) = ContByte THEN 2
    ELSE 0

\* where a greedy run of digits that starts at i ends
RECURSIVE DigitsEnd(_, _)
DigitsEnd(b, i) ==
    IF DigitLenAt(b, i) = 0 THEN i ELSE DigitsEnd(b, i + DigitLenAt(b, i))

\* the integer part at i: where it ends, or -1
IntEnd(b, i) ==
    IF At(b, i) = "0" THEN i + 1
    ELSE IF At(b, i) \in NonZeroDigits THEN DigitsEnd(b, i + 1)
    ELSE -1

\* the optional fraction at i: where it ends
FracEnd(b, i) ==
    IF At(b, i) = "." /\ DigitLenAt(b, i + 1) > 0 THEN DigitsEnd(b, i + 1) ELSE i

\* the optional exponent at i: where it ends
ExpEnd(b, i) ==
    IF At(b, i) \in {"e", "E"}
    THEN LET k == IF At(b, i + 1) \in {"+", "-"} THEN i + 2 ELSE i + 1 IN
         IF DigitLenAt(b, k) > 0 THEN DigitsEnd(b, k) ELSE i
    ELSE i

\* where the match that starts exactly at i ends, or -1 when none starts there
MatchEnd(b, i) ==
    LET j == IF At(b, i) = "-" THEN i + 1 ELSE i
        e == IntEnd(b, j)
    IN IF e = -1 THEN -1 ELSE ExpEnd(b, FracEnd(b, e))

\* the starts, at or after start, of the matches in b
MatchStarts(b, start) == {i \in start .. Len(b) - 1 : MatchEnd(b, i) # -1}

Min(S) == CHOOSE x \in S : \A y \in S : x <= y

\* Regex::find_at: the leftmost match that starts at or after start
find_at(b, start) ==
    IF MatchStarts(b, start) = {}
    THEN [found |-> FALSE]
    ELSE LET s == Min(MatchStarts(b, start)) IN
         [found |-> TRUE, start |-> s, end |-> MatchEnd(b, s)]

\* a tokenize_number that stamps the token with the place of the match
tokenize_number_at_match(chars, off) ==
    LET b == Bytes(chars)
        found == find_at(b, off)
    IN IF ~found.found
       THEN Err(TokenizeError(off, [kind |-> "CannotParseNumber"]))
       ELSE Ok(Token("Number", Slice(b, found.start, found.end), found.start))

(***************************************************************************)
(* Tokenizer::tokenize_number                                              *)
(***************************************************************************)
tokenize_number(chars, off) ==
    LET b == Bytes(chars)
        found == find_at(b, off)
    IN IF ~found.found
       THEN Err(TokenizeError(off, [kind |-> "CannotParseNumber"]))
       ELSE Ok(Token("Number", Slice(b, found.start, found.end), off))

(***************************************************************************)
(* Tokenizer::tokenize_string                                              *)
(***************************************************************************)
\* chars().skip(n).position(|x| x == '"'), or -1
QuotePositions(chars, n) == {k \in 0 .. Len(chars) - n - 1 : chars[n + k + 1] = "\""}

quote_distance(chars, n) ==
    IF QuotePositions(chars, n) = {} THEN -1 ELSE Min(QuotePositions(chars, n))

tokenize_string(chars, off) ==
    LET b == Bytes(chars)
        qd == quote_distance(chars, off + 1)
        str_end_offset == off + qd + 2
    IN IF qd = -1
       THEN Err(TokenizeError(off, [kind |-> "NoStringTerminatingQuote"]))
       ELSE IF ~SliceOk(b, off, str_end_offset)
            THEN Panic
            ELSE Ok(Token("String", Slice(b, off, str_end_offset), off))

(***************************************************************************)
(* Tokenizer::tokenize_whitespace                                          *)
(***************************************************************************)
\* the length of the run of whitespace characters that starts at character n
RECURSIVE WhitespaceRun(_, _)
WhitespaceRun(chars, n) ==
    IF n < Len(chars) /\ is_ascii_whitespace(chars[n + 1])
    THEN 1 + WhitespaceRun(chars, n + 1)
    ELSE 0

tokenize_whitespace(chars, off) ==
    LET b == Bytes(chars)
        ws_end_offset == off + WhitespaceRun(chars, off)
    IN IF ~SliceOk(b, off, ws_end_offset)
       THEN Panic
       ELSE Ok(Token("Whitespace", Slice(b, off, ws_end_offset), off))

(***************************************************************************)
(* Tokenizer::tokenize: one iteration of the loop.                         *)
(***************************************************************************)
\* self.input.chars().nth(self.offset)
Nth(chars, n) == IF n < Len(chars) THEN chars[n + 1] ELSE "None"

LiteralOf(c) ==
    CASE c = "f" -> <<"f", "a", "l", "s", "e">>
      [] c = "n" -> <<"n", "u", "l", "l">>
      [] c = "t" -> <<"t", "r", "u", "e">>
      [] OTHER -> <<c>>

LiteralType(c) ==
    CASE c = "," -> "Comma"
      [] c = ":" -> "Colon"
      [] c = "[" -> "ArrayStart"
      [] c = "]" -> "ArrayEnd"
      [] c = "{" -> "ObjectStart"
      [] c = "}" -> "ObjectEnd"
      [] c = "f" -> "False"
      [] c = "n" -> "Null"
      [] c = "t" -> "True"

LiteralChars == {",", ":", "[", "]", "{", "}", "f", "n", "t"}

\* the match on c: the token_result of this iteration
token_result(chars, off) ==
    LET c == Nth(chars, off) IN
    CASE c \in LiteralChars -> tokenize_literal(chars, off, LiteralOf(c), LiteralType(c))
      [] c = "\"" -> tokenize_string(chars, off)
      [] c = "-" -> tokenize_number(chars, off)
      [] OTHER ->
           IF is_ascii_digit(c) THEN tokenize_number(chars, off)
           ELSE IF is_ascii_whitespace(c) THEN tokenize_whitespace(chars, off)
           ELSE Err(TokenizeError(off, [kind |-> "UnhandledCharacter"]))

\* Ok(token): advance the cursor by the token's byte length and keep the token
TokenizeMatch ==
    /\ tresult = Running
    /\ Nth(input, toffset) # "None"
    /\ LET res == token_result(input, toffset) IN
       /\ res.r = "Ok"
       /\ toffset' = toffset + Len(res.token.value)
       /\ ttokens' = Append(ttokens, res.token)
    /\ UNCHANGED <<input, tresult>>
    /\ UNCHANGED pvars
    /\ UNCHANGED cvars

\* a tokenizer that steps over what it cannot match
TokenizeFailSkips ==
    /\ tresult = Running
    /\ Nth(input, toffset) # "None"
    /\ token_result(input, toffset).r = "Err"
    /\ toffset' = toffset + 1
    /\ UNCHANGED <<input, ttokens, tresult>>
    /\ UNCHANGED pvars
    /\ UNCHANGED cvars

\* Err: return the error alone
TokenizeFail ==
    /\ tresult = Running
    /\ Nth(input, toffset) # "None"
    /\ LET res == token_result(input, toffset) IN
       /\ res.r = "Err"
       /\ tresult' = [r |-> "Err", error |-> res.error]
    /\ UNCHANGED <<input, toffset, ttokens>>
    /\ UNCHANGED pvars
    /\ UNCHANGED cvars

\* a slice off a character boundary
TokenizePanic ==
    /\ tresult = Running
    /\ Nth(input, toffset) # "None"
    /\ token_result(input, toffset).r = "Panic"
    /\ tresult' = Panic
    /\ UNCHANGED <<input, toffset, ttokens>>
    /\ UNCHANGED pvars
    /\ UNCHANGED cvars

\* None => break; Ok(self.tokens)
TokenizeEnd ==
    /\ tresult = Running
    /\ Nth(input, toffset) = "None"
    /\ tresult' = [r |-> "Ok", tokens |-> ttokens]
    /\ UNCHANGED <<input, toffset, ttokens>>
    /\ UNCHANGED pvars
    /\ UNCHANGED cvars

(***************************************************************************)
(* The texts the tokenizer is run on.                                      *)
(***************************************************************************)
TextPieces ==
    {<<c>> : c \in {",", ":", "[", "]", "{", "}", "\"", "\\", "-", "0", "1",
                    ".", "e", " ", NonAsciiDigit}}
    \cup {<<"t", "r", "u", "e">>, <<"n", "u", "l", "l">>,
          <<"f", "a", "l", "s", "e">>, <<"t", "r", "u">>,
          <<"\"", NonAsciiDigit>>}

RECURSIVE Concatenations(_, _)
Concatenations(pieces, n) ==
    IF n = 0 THEN {<<>>}
    ELSE LET shorter == Concatenations(pieces, n - 1) IN
         shorter \cup {s \o p : s \in shorter, p \in pieces}

Texts == Concatenations(TextPieces, MaxPieces)

(***************************************************************************)
(* Json and ParseError.                                                    *)
(***************************************************************************)
JsonNull == [t |-> "Null"]
JsonBoolean(b) == [t |-> "Boolean", b |-> b]
JsonInteger(i) == [t |-> "Integer", i |-> i]
JsonString(s) == [t |-> "String", s |-> s]
JsonArray(a) == [t |-> "Array", a |-> a]
JsonObject(o) == [t |-> "Object", o |-> o]
NoJson == [t |-> "None"]

ParseError(off, message) == [offset |-> off, message |-> message]

\* an insert that leaves a present key as it is
InsertKeepsFirst(map, key, value) ==
    [k \in (DOMAIN map) \cup {key} |-> IF k \in DOMAIN map THEN map[k] ELSE value]

\* HashMap::new, and HashMap::insert: a present key keeps one entry, with the new value
EmptyMap == <<>>
Insert(map, key, value) ==
    [k \in (DOMAIN map) \cup {key} |-> IF k = key THEN value ELSE map[k]]

(***************************************************************************)
(* str::parse::<i32>: an optional sign, then one or more ASCII digits,     *)
(* accumulated with checked arithmetic.                                    *)
(***************************************************************************)
I32Max == 2147483647
I32Min == -I32Max - 1

DigitValue(d) ==
    CASE d = "0" -> 0 [] d = "1" -> 1 [] d = "2" -> 2 [] d = "3" -> 3 [] d = "4" -> 4
      [] d = "5" -> 5 [] d = "6" -> 6 [] d = "7" -> 7 [] d = "8" -> 8 [] d = "9" -> 9

IntOk(n) == [ok |-> TRUE, value |-> n]
IntErr == [ok |-> FALSE]

\* an overflow check that is off by one: it refuses i32::MAX
RECURSIVE AccumulatePositiveStrict(_, _)
AccumulatePositiveStrict(acc, digits) ==
    IF digits = <<>> THEN IntOk(acc)
    ELSE LET d == DigitValue(Head(digits)) IN
         IF acc >= (I32Max - d) \div 10 THEN IntErr
         ELSE AccumulatePositiveStrict(acc * 10 + d, Tail(digits))

\* checked_mul(10) and checked_add(d) over the digits
RECURSIVE AccumulatePositive(_, _)
AccumulatePositive(acc, digits) ==
    IF digits = <<>> THEN IntOk(acc)
    ELSE LET d == DigitValue(Head(digits)) IN
         IF acc > (I32Max - d) \div 10 THEN IntErr
         ELSE AccumulatePositive(acc * 10 + d, Tail(digits))

\* checked_mul(10) and checked_sub(d) over the digits of a negative number
RECURSIVE AccumulateNegative(_, _)
AccumulateNegative(acc, digits) ==
    IF digits = <<>> THEN IntOk(acc)
    ELSE LET d == DigitValue(Head(digits)) IN
         IF acc < (I32Min + d + 9) \div 10 THEN IntErr
         ELSE AccumulateNegative(acc * 10 - d, Tail(digits))

\* token.value.parse::<i32>()
parse_i32(text) ==
    LET signed == text # <<>> /\ Head(text) \in {"+", "-"}
        digits == IF signed THEN Tail(text) ELSE text
    IN IF digits = <<>> \/ \E k \in 1 .. Len(digits) : digits[k] \notin AsciiDigits
       THEN IntErr
       ELSE IF signed /\ Head(text) = "-"
            THEN AccumulateNegative(0, digits)
            ELSE AccumulatePositive(0, digits)

(***************************************************************************)
(* The parser's control.  Every handler is an operator from the parser's   *)
(* state to its next state, and an action that applies it.                 *)
(*   pc        the code about to run                                       *)
(*   parse     Parser::parse, line 38                                      *)
(*   _parse    Parser::_parse                                              *)
(*   parse_array, parse_object      the head of the function               *)
(*   array_sep     parse_array after an element (line 106)                 *)
(*   object_key    parse_object at a key (line 159)                        *)
(*   object_colon  parse_object after a key (line 161)                     *)
(*   object_sep    parse_object after a member's value (line 186)          *)
(*   parse_end     Parser::parse after _parse has returned Ok (line 41)    *)
(***************************************************************************)
ArrayFrame == [fn |-> "parse_array", array |-> <<>>, object |-> EmptyMap, key |-> <<>>]
ObjectFrame == [fn |-> "parse_object", array |-> <<>>, object |-> EmptyMap, key |-> <<>>]

Top(stk) == stk[Len(stk)]
Pop(stk) == SubSeq(stk, 1, Len(stk) - 1)
SetTop(stk, frame) == [stk EXCEPT ![Len(stk)] = frame]

\* self.tokens.get(off)
HasToken(toks, off) == off < Len(toks)
Get(toks, off) == toks[off + 1]

Goto(off, stk, p) ==
    [offset |-> off, stack |-> stk, pc |-> p, parsed |-> NoJson, presult |-> Running]

\* Err(ParseError::new(off, message)), which `?` carries out of every active call
Fail(off, message) ==
    [offset |-> off, stack |-> <<>>, pc |-> "done", parsed |-> NoJson,
     presult |-> [r |-> "Err", error |-> ParseError(off, message)]]

Unwind(off) ==
    [offset |-> off, stack |-> <<>>, pc |-> "done", parsed |-> NoJson, presult |-> Panic]

\* a return that puts an array's new element first
ReturnPrepends(off, stk, json) ==
    IF stk = <<>>
    THEN [offset |-> off, stack |-> stk, pc |-> "parse_end", parsed |-> json,
          presult |-> Running]
    ELSE IF Top(stk).fn = "parse_array"
    THEN Goto(off, SetTop(stk, [Top(stk) EXCEPT !.array = <<json>> \o @]), "array_sep")
    ELSE Goto(off, SetTop(stk, [Top(stk) EXCEPT !.object = Insert(@, Top(stk).key, json)]),
              "object_sep")

\* Ok(json) returned to the caller: parse (line 39), parse_array (lines 103-104)
\* or parse_object (lines 174-175)
Return(off, stk, json) ==
    IF stk = <<>>
    THEN [offset |-> off, stack |-> stk, pc |-> "parse_end", parsed |-> json,
          presult |-> Running]
    ELSE IF Top(stk).fn = "parse_array"
    THEN Goto(off, SetTop(stk, [Top(stk) EXCEPT !.array = Append(@, json)]), "array_sep")
    ELSE Goto(off, SetTop(stk, [Top(stk) EXCEPT !.object = Insert(@, Top(stk).key, json)]),
              "object_sep")

EndOfInput == [kind |-> "UnexpectedEndOfInput"]

\* token.value[1..token.value.len() - 1]
StripOk(value) == Len(value) >= 1 /\ SliceOk(value, 1, Len(value) - 1)
Strip(value) == Slice(value, 1, Len(value) - 1)

\* Parser::parse_string_key: the key, the error, or a panic
parse_string_key(toks, off) ==
    IF ~HasToken(toks, off)
    THEN [r |-> "Err", message |-> EndOfInput]
    ELSE LET token == Get(toks, off) IN
         IF token.type_ # "String"
         THEN [r |-> "Err", message |-> [kind |-> "CannotParseAsString", text |-> token.value]]
         ELSE IF ~StripOk(token.value)
         THEN Panic
         ELSE [r |-> "Ok", s |-> Strip(token.value)]

\* a _parse that steps over a token that cannot start a value
parse_value_skips(toks, off, stk) ==
    IF ~HasToken(toks, off)
    THEN Fail(off, EndOfInput)
    ELSE LET token == Get(toks, off) IN
         CASE token.type_ = "Null" -> Return(off + 1, stk, JsonNull)
           [] token.type_ = "True" -> Return(off + 1, stk, JsonBoolean(TRUE))
           [] token.type_ = "False" -> Return(off + 1, stk, JsonBoolean(FALSE))
           [] token.type_ = "Number" ->
                IF ~parse_i32(token.value).ok
                THEN Fail(off, [kind |-> "CannotParseAsInteger", text |-> token.value])
                ELSE Return(off + 1, stk, JsonInteger(parse_i32(token.value).value))
           [] token.type_ = "String" ->
                IF parse_string_key(toks, off).r = "Panic"
                THEN Unwind(off + 1)
                ELSE Return(off + 1, stk, JsonString(parse_string_key(toks, off).s))
           [] token.type_ = "ArrayStart" -> Goto(off, stk, "parse_array")
           [] token.type_ = "ObjectStart" -> Goto(off, stk, "parse_object")
           [] OTHER -> Goto(off + 1, stk, "_parse")

\* Parser::_parse, with parse_string
parse_value(toks, off, stk) ==
    IF ~HasToken(toks, off)
    THEN Fail(off, EndOfInput)
    ELSE LET token == Get(toks, off) IN
         CASE token.type_ = "Null" -> Return(off + 1, stk, JsonNull)
           [] token.type_ = "True" -> Return(off + 1, stk, JsonBoolean(TRUE))
           [] token.type_ = "False" -> Return(off + 1, stk, JsonBoolean(FALSE))
           [] token.type_ = "Number" ->
                IF ~parse_i32(token.value).ok
                THEN Fail(off, [kind |-> "CannotParseAsInteger", text |-> token.value])
                ELSE Return(off + 1, stk, JsonInteger(parse_i32(token.value).value))
           [] token.type_ = "String" ->
                IF parse_string_key(toks, off).r = "Panic"
                THEN Unwind(off + 1)
                ELSE Return(off + 1, stk, JsonString(parse_string_key(toks, off).s))
           [] token.type_ = "ArrayStart" -> Goto(off, stk, "parse_array")
           [] token.type_ = "ObjectStart" -> Goto(off, stk, "parse_object")
           [] OTHER -> Fail(off, [kind |-> "FoundUnexpectedToken", text |-> token.value])

\* a parse_array that looks for its first token without consuming `[`
parse_array_open_stale(toks, off, stk) ==
    IF ~HasToken(toks, off + 1)
    THEN Fail(off, EndOfInput)
    ELSE IF Get(toks, off + 1).type_ = "ArrayEnd"
    THEN Return(off + 2, stk, JsonArray(<<>>))
    ELSE Goto(off + 1, Append(stk, ArrayFrame), "_parse")

\* Parser::parse_array up to its loop
parse_array_open(toks, off, stk) ==
    IF ~HasToken(toks, off + 1)
    THEN Fail(off + 1, EndOfInput)
    ELSE IF Get(toks, off + 1).type_ = "ArrayEnd"
    THEN Return(off + 2, stk, JsonArray(<<>>))
    ELSE Goto(off + 1, Append(stk, ArrayFrame), "_parse")

\* a parse_array that takes a missing comma for a comma
parse_array_sep_lenient(toks, off, stk) ==
    IF ~HasToken(toks, off)
    THEN Fail(off, EndOfInput)
    ELSE LET token == Get(toks, off) IN
         CASE token.type_ = "Comma" -> Goto(off + 1, stk, "_parse")
           [] token.type_ = "ArrayEnd" -> Return(off + 1, Pop(stk), JsonArray(Top(stk).array))
           [] OTHER -> Goto(off, stk, "_parse")

\* Parser::parse_array after an element
parse_array_sep(toks, off, stk) ==
    IF ~HasToken(toks, off)
    THEN Fail(off, EndOfInput)
    ELSE LET token == Get(toks, off) IN
         CASE token.type_ = "Comma" -> Goto(off + 1, stk, "_parse")
           [] token.type_ = "ArrayEnd" -> Return(off + 1, Pop(stk), JsonArray(Top(stk).array))
           [] OTHER -> Fail(off, [kind |-> "UnexpectedTokenInArray", text |-> token.value])

\* Parser::parse_object up to its loop
parse_object_open(toks, off, stk) ==
    IF ~HasToken(toks, off + 1)
    THEN Fail(off + 1, EndOfInput)
    ELSE IF Get(toks, off + 1).type_ = "ObjectEnd"
    THEN Return(off + 2, stk, JsonObject(EmptyMap))
    ELSE Goto(off + 1, Append(stk, ObjectFrame), "object_key")

\* a parse_object that reports a bad key one token late
parse_object_key_late(toks, off, stk) ==
    LET key == parse_string_key(toks, off) IN
    CASE key.r = "Err" -> Fail(off + 1, key.message)
      [] key.r = "Panic" -> Unwind(off + 1)
      [] key.r = "Ok" -> Goto(off + 1, SetTop(stk, [Top(stk) EXCEPT !.key = key.s]), "object_colon")

\* Parser::parse_object at a key
parse_object_key(toks, off, stk) ==
    LET key == parse_string_key(toks, off) IN
    CASE key.r = "Err" -> Fail(off, key.message)
      [] key.r = "Panic" -> Unwind(off + 1)
      [] key.r = "Ok" -> Goto(off + 1, SetTop(stk, [Top(stk) EXCEPT !.key = key.s]), "object_colon")

\* a parse_object that takes a missing colon for a colon
parse_object_colon_lenient(toks, off, stk) ==
    IF ~HasToken(toks, off)
    THEN Fail(off, EndOfInput)
    ELSE LET token == Get(toks, off) IN
         IF token.type_ = "Colon"
         THEN Goto(off + 1, stk, "_parse")
         ELSE Goto(off, stk, "_parse")

\* Parser::parse_object after a key
parse_object_colon(toks, off, stk) ==
    IF ~HasToken(toks, off)
    THEN Fail(off, EndOfInput)
    ELSE LET token == Get(toks, off) IN
         IF token.type_ = "Colon"
         THEN Goto(off + 1, stk, "_parse")
         ELSE Fail(off, [kind |-> "UnexpectedTokenInObject", text |-> token.value])

\* a parse_object that lets the closing brace follow a comma
parse_object_sep_trailing(toks, off, stk) ==
    IF ~HasToken(toks, off)
    THEN Fail(off, EndOfInput)
    ELSE LET token == Get(toks, off) IN
         CASE token.type_ = "Comma" ->
                IF HasToken(toks, off + 1) /\ Get(toks, off + 1).type_ = "ObjectEnd"
                THEN Return(off + 2, Pop(stk), JsonObject(Top(stk).object))
                ELSE Goto(off + 1, stk, "object_key")
           [] token.type_ = "ObjectEnd" -> Return(off + 1, Pop(stk), JsonObject(Top(stk).object))
           [] OTHER -> Fail(off, [kind |-> "UnexpectedTokenInObject", text |-> token.value])

\* Parser::parse_object after a member's value
parse_object_sep(toks, off, stk) ==
    IF ~HasToken(toks, off)
    THEN Fail(off, EndOfInput)
    ELSE LET token == Get(toks, off) IN
         CASE token.type_ = "Comma" -> Goto(off + 1, stk, "object_key")
           [] token.type_ = "ObjectEnd" -> Return(off + 1, Pop(stk), JsonObject(Top(stk).object))
           [] OTHER -> Fail(off, [kind |-> "UnexpectedTokenInObject", text |-> token.value])

\* a Parser::parse that returns the value whatever is left of the input
parse_end_lenient(toks, off, json) ==
    [offset |-> off, stack |-> <<>>, pc |-> "done", parsed |-> json,
     presult |-> [r |-> "Ok", json |-> json]]

\* Parser::parse after _parse has returned Ok (src/src/parser.rs)
parse_end(toks, off, json) ==
    IF off < Len(toks)
    THEN Fail(off, [kind |-> "UnexpectedExtraInput"])
    ELSE [offset |-> off, stack |-> <<>>, pc |-> "done", parsed |-> json,
          presult |-> [r |-> "Ok", json |-> json]]

\* the same place in the copy of Parser::parse in src/src/main.rs
main_parse_end(toks, off, json) ==
    IF off # Len(toks)
    THEN LET len == IF toks = <<>> THEN 0
                    ELSE toks[Len(toks)].offset + Len(toks[Len(toks)].value)
         IN [Fail(len, [kind |-> "UnexpectedExtraInput"]) EXCEPT !.offset = off]
    ELSE [offset |-> off, stack |-> <<>>, pc |-> "done", parsed |-> json,
          presult |-> [r |-> "Ok", json |-> json]]

Apply(next) ==
    /\ offset' = next.offset
    /\ stack' = next.stack
    /\ pc' = next.pc
    /\ parsed' = next.parsed
    /\ presult' = next.presult
    /\ UNCHANGED tokens
    /\ UNCHANGED tvars
    /\ UNCHANGED cvars

\* a retain that keeps every token
KeepsWhitespace(token) == token.type_ = token.type_

\* self.tokens.retain(|x| x.type_ != TokenType::Whitespace)
NotWhitespace(token) == token.type_ # "Whitespace"

\* the code that runs at st.pc, as a function of the parser's state
parse_step(toks, st) ==
    CASE st.pc = "_parse" -> parse_value(toks, st.offset, st.stack)
      [] st.pc = "parse_array" -> parse_array_open(toks, st.offset, st.stack)
      [] st.pc = "array_sep" -> parse_array_sep(toks, st.offset, st.stack)
      [] st.pc = "parse_object" -> parse_object_open(toks, st.offset, st.stack)
      [] st.pc = "object_key" -> parse_object_key(toks, st.offset, st.stack)
      [] st.pc = "object_colon" -> parse_object_colon(toks, st.offset, st.stack)
      [] st.pc = "object_sep" -> parse_object_sep(toks, st.offset, st.stack)
      [] st.pc = "parse_end" -> parse_end(toks, st.offset, st.parsed)

\* Parser::parse from st to its return
RECURSIVE run_parser(_, _)
run_parser(toks, st) ==
    IF st.pc = "done" THEN st.presult ELSE run_parser(toks, parse_step(toks, st))

\* parse(tokens): Parser::new(tokens, 0).parse(), as a function of the tokens
parse(toks) == run_parser(SelectSeq(toks, NotWhitespace), Goto(0, <<>>, "_parse"))

ParseRetain ==
    /\ pc = "parse"
    /\ tokens' = SelectSeq(tokens, NotWhitespace)
    /\ pc' = "_parse"
    /\ UNCHANGED <<offset, stack, parsed, presult>>
    /\ UNCHANGED tvars
    /\ UNCHANGED cvars

ParseValue == pc = "_parse" /\ Apply(parse_value(tokens, offset, stack))
ParseArrayOpen == pc = "parse_array" /\ Apply(parse_array_open(tokens, offset, stack))
ParseArraySep == pc = "array_sep" /\ Apply(parse_array_sep(tokens, offset, stack))
ParseObjectOpen == pc = "parse_object" /\ Apply(parse_object_open(tokens, offset, stack))
ParseObjectKey == pc = "object_key" /\ Apply(parse_object_key(tokens, offset, stack))
ParseObjectColon == pc = "object_colon" /\ Apply(parse_object_colon(tokens, offset, stack))
ParseObjectSep == pc = "object_sep" /\ Apply(parse_object_sep(tokens, offset, stack))
ParseEnd == pc = "parse_end" /\ Apply(parse_end(tokens, offset, parsed))
MainParseEnd == pc = "parse_end" /\ Apply(main_parse_end(tokens, offset, parsed))

(***************************************************************************)
(* The token sequences the parser is run on.                               *)
(***************************************************************************)
Lexeme(type_, value) == [type_ |-> type_, value |-> value]

LBracket == Lexeme("ArrayStart", <<"[">>)
RBracket == Lexeme("ArrayEnd", <<"]">>)
LBrace == Lexeme("ObjectStart", <<"{">>)
RBrace == Lexeme("ObjectEnd", <<"}">>)
ColonLexeme == Lexeme("Colon", <<":">>)
CommaLexeme == Lexeme("Comma", <<",">>)
NullLexeme == Lexeme("Null", <<"n", "u", "l", "l">>)
TrueLexeme == Lexeme("True", <<"t", "r", "u", "e">>)
FalseLexeme == Lexeme("False", <<"f", "a", "l", "s", "e">>)
NumberLexeme(text) == Lexeme("Number", text)
StringLexeme(text) == Lexeme("String", <<"\"">> \o text \o <<"\"">>)
SpaceLexeme == Lexeme("Whitespace", <<" ">>)

One == NumberLexeme(<<"1">>)
KeyA == StringLexeme(<<"a">>)
KeyB == StringLexeme(<<"b">>)

TokenPieces ==
    {<<l>> : l \in {LBracket, RBracket, LBrace, RBrace, ColonLexeme, CommaLexeme,
                    NullLexeme, TrueLexeme, FalseLexeme, One, KeyA, SpaceLexeme}}
    \cup {<<LBrace, KeyA, ColonLexeme, NullLexeme, CommaLexeme>>,
          <<KeyA, ColonLexeme, TrueLexeme>>,
          <<KeyB, ColonLexeme, One>>,
          <<LBracket, LBracket, One, RBracket, CommaLexeme>>}

\* number texts around the ends of the i32 range, and texts that are no integer
NumberTexts ==
    {<<"0">>, <<"-", "0">>, <<"-", "1">>,
     <<"2", "1", "4", "7", "4", "8", "3", "6", "4", "7">>,
     <<"2", "1", "4", "7", "4", "8", "3", "6", "4", "8">>,
     <<"-", "2", "1", "4", "7", "4", "8", "3", "6", "4", "8">>,
     <<"-", "2", "1", "4", "7", "4", "8", "3", "6", "4", "9">>,
     <<"2", "2", "2", "2", "2", "2", "2", "2", "2", "2", "2", "2">>,
     <<"1", ".", "5">>, <<"1", "e", "1">>, <<"1", LeadByte, ContByte>>}

\* what stands before a number where a value is expected, and what may follow it
NumberPrefixes ==
    {<<>>, <<LBracket>>, <<LBracket, One, CommaLexeme>>, <<LBrace, KeyA, ColonLexeme>>}
NumberSuffixes == {<<>>, <<RBracket>>, <<RBrace>>}

NumberInputs ==
    {p \o <<NumberLexeme(t)>> \o s : p \in NumberPrefixes, t \in NumberTexts, s \in NumberSuffixes}

LexemeInputs == Concatenations(TokenPieces, MaxTokenPieces) \cup NumberInputs

\* the tokens of a sequence of lexemes, each at the offset the text before it gives it
RECURSIVE MakeTokens(_, _)
MakeTokens(lexemes, off) ==
    IF lexemes = <<>> THEN <<>>
    ELSE <<Token(Head(lexemes).type_, Head(lexemes).value, off)>>
         \o MakeTokens(Tail(lexemes), off + Len(Head(lexemes).value))

\* no process: main is not running
NotStarted == [state |-> "none"]

CliIdle ==
    /\ args = <<>>
    /\ printed = <<>>
    /\ status = NotStarted
    /\ mpc = "idle"

TokenizerIdle ==
    /\ input = <<>>
    /\ toffset = 0
    /\ ttokens = <<>>
    /\ tresult = Running

\* Parser::new(tokens, 0)
ParserInit ==
    /\ tokens \in {MakeTokens(l, 0) : l \in LexemeInputs}
    /\ offset = 0
    /\ stack = <<>>
    /\ pc = "parse"
    /\ parsed = NoJson
    /\ presult = Running
    /\ TokenizerIdle
    /\ CliIdle

ParserSteps ==
    \/ ParseRetain
    \/ ParseValue
    \/ ParseArrayOpen
    \/ ParseArraySep
    \/ ParseObjectOpen
    \/ ParseObjectKey
    \/ ParseObjectColon
    \/ ParseObjectSep

ParserNext == ParserSteps \/ ParseEnd

ParserSpec == ParserInit /\ [][ParserNext]_vars

\* the parser as src/src/main.rs has it
MainParserNext == ParserSteps \/ MainParseEnd

MainParserSpec == ParserInit /\ [][MainParserNext]_vars

ParserIdle ==
    /\ tokens = <<>>
    /\ offset = 0
    /\ stack = <<>>
    /\ pc = "idle"
    /\ parsed = NoJson
    /\ presult = Running

\* Tokenizer::new
TokenizerInit ==
    /\ input \in Texts
    /\ toffset = 0
    /\ ttokens = <<>>
    /\ tresult = Running
    /\ ParserIdle
    /\ CliIdle

TokenizerNext == TokenizeMatch \/ TokenizeFail \/ TokenizePanic \/ TokenizeEnd

TokenizerSpec == TokenizerInit /\ [][TokenizerNext]_vars

\* the tokenizer as it runs: the loop of Tokenizer::tokenize is sequential code
\* that nothing suspends, so an iteration that can be taken is taken.  This is
\* weak fairness of TokenizerNext, WF_vars(TokenizerNext), with its enabling
\* condition written out: an iteration can be taken exactly while tokenize has
\* not returned, since the match on the character at the cursor has an arm for
\* every character and for the end of the input.
TokenizerFairSpec ==
    TokenizerSpec /\ ([]<>(tresult # Running) \/ []<><<TokenizerNext>>_vars)

(***************************************************************************)
(* The program of src/src/main.rs: main, with the tokenizer and the parser *)
(* that file defines for itself.  Its tokenizer has no arm for `-` and     *)
(* takes a run of ASCII digits for a number, of the kind it names Integer  *)
(* and its parser matches as Integer: the kind Number here.  Its parser is *)
(* the parser above with the end of Parser::parse as in main_parse_end;    *)
(* for a wrong token in an array or object its message has the token's     *)
(* Display form (its kind and value) where parser.rs has the value.        *)
(***************************************************************************)
\* the length of the run of ASCII digits that starts at character n
RECURSIVE DigitRun(_, _)
DigitRun(chars, n) ==
    IF n < Len(chars) /\ is_ascii_digit(chars[n + 1])
    THEN 1 + DigitRun(chars, n + 1)
    ELSE 0

\* Tokenizer::tokenize_integer
tokenize_integer(chars, off) ==
    LET b == Bytes(chars)
        int_end_offset == off + DigitRun(chars, off)
    IN IF ~SliceOk(b, off, int_end_offset)
       THEN Panic
       ELSE Ok(Token("Number", Slice(b, off, int_end_offset), off))

\* the match on c in Tokenizer::tokenize of main.rs
main_token_result(chars, off) ==
    LET c == Nth(chars, off) IN
    CASE c \in LiteralChars -> tokenize_literal(chars, off, LiteralOf(c), LiteralType(c))
      [] c = "\"" -> tokenize_string(chars, off)
      [] OTHER ->
           IF is_ascii_digit(c) THEN tokenize_integer(chars, off)
           ELSE IF is_ascii_whitespace(c) THEN tokenize_whitespace(chars, off)
           ELSE Err(TokenizeError(off, [kind |-> "UnhandledCharacter"]))

Started == [state |-> "running"]
Exited(code) == [state |-> "exited", code |-> code]

\* println!("Usage: {} <json string>", args[0])
UsageLine(program) == [line |-> "Usage", program |-> program]
\* println!("Tokenize Error at offset {}: {}", error.offset, error.message)
TokenizeErrorLine(error) ==
    [line |-> "Tokenize Error", offset |-> error.offset, message |-> error.message]
\* println!("{:?}", json), json the Result that parse returned
DebugLine(result) == [line |-> "Debug", result |-> result]

\* the exit status of a process whose main returns, and of one that panics
ExitSuccess == 0
ExitPanic == 101

\* args.len() != 2: the usage line, and std::process::exit(1)
MainUsage ==
    /\ mpc = "main"
    /\ Len(args) # 2
    /\ printed' = Append(printed, UsageLine(args[1]))
    /\ status' = Exited(1)
    /\ mpc' = "exited"
    /\ UNCHANGED args
    /\ UNCHANGED tvars
    /\ UNCHANGED pvars

\* tokenize(&args[1]): Tokenizer::new
MainCallTokenize ==
    /\ mpc = "main"
    /\ Len(args) = 2
    /\ input' = args[2]
    /\ toffset' = 0
    /\ ttokens' = <<>>
    /\ tresult' = Running
    /\ mpc' = "tokenize"
    /\ UNCHANGED <<args, printed, status>>
    /\ UNCHANGED pvars

MainTokenizeMatch ==
    /\ mpc = "tokenize"
    /\ tresult = Running
    /\ Nth(input, toffset) # "None"
    /\ LET res == main_token_result(input, toffset) IN
       /\ res.r = "Ok"
       /\ toffset' = toffset + Len(res.token.value)
       /\ ttokens' = Append(ttokens, res.token)
    /\ UNCHANGED <<input, tresult>>
    /\ UNCHANGED pvars
    /\ UNCHANGED cvars

MainTokenizeFail ==
    /\ mpc = "tokenize"
    /\ tresult = Running
    /\ Nth(input, toffset) # "None"
    /\ LET res == main_token_result(input, toffset) IN
       /\ res.r = "Err"
       /\ tresult' = [r |-> "Err", error |-> res.error]
    /\ UNCHANGED <<input, toffset, ttokens>>
    /\ UNCHANGED pvars
    /\ UNCHANGED cvars

MainTokenizePanic ==
    /\ mpc = "tokenize"
    /\ tresult = Running
    /\ Nth(input, toffset) # "None"
    /\ main_token_result(input, toffset).r = "Panic"
    /\ tresult' = Panic
    /\ UNCHANGED <<input, toffset, ttokens>>
    /\ UNCHANGED pvars
    /\ UNCHANGED cvars

MainTokenizeEnd ==
    /\ mpc = "tokenize"
    /\ tresult = Running
    /\ Nth(input, toffset) = "None"
    /\ tresult' = [r |-> "Ok", tokens |-> ttokens]
    /\ UNCHANGED <<input, toffset, ttokens>>
    /\ UNCHANGED pvars
    /\ UNCHANGED cvars

\* Ok(tokens) => parse(tokens): Parser::new(tokens, 0)
MainCallParse ==
    /\ mpc = "tokenize"
    /\ tresult.r = "Ok"
    /\ tokens' = tresult.tokens
    /\ offset' = 0
    /\ stack' = <<>>
    /\ pc' = "parse"
    /\ parsed' = NoJson
    /\ presult' = Running
    /\ mpc' = "parse"
    /\ UNCHANGED <<args, printed, status>>
    /\ UNCHANGED tvars

\* println!("{:?}", json), for Ok and for Err alike, and main returns
MainPrintResult ==
    /\ mpc = "parse"
    /\ pc = "done"
    /\ presult.r \in {"Ok", "Err"}
    /\ printed' = Append(printed, DebugLine(presult))
    /\ status' = Exited(ExitSuccess)
    /\ mpc' = "exited"
    /\ UNCHANGED args
    /\ UNCHANGED tvars
    /\ UNCHANGED pvars

\* Err(error) => println!("Tokenize Error ..."), and main returns
MainPrintTokenizeError ==
    /\ mpc = "tokenize"
    /\ tresult.r = "Err"
    /\ printed' = Append(printed, TokenizeErrorLine(tresult.error))
    /\ status' = Exited(ExitSuccess)
    /\ mpc' = "exited"
    /\ UNCHANGED args
    /\ UNCHANGED tvars
    /\ UNCHANGED pvars

\* a panic in tokenize or in parse ends the process
MainPanics ==
    /\ \/ mpc = "tokenize" /\ tresult = Panic
       \/ mpc = "parse" /\ presult = Panic
    /\ status' = Exited(ExitPanic)
    /\ mpc' = "exited"
    /\ UNCHANGED <<args, printed>>
    /\ UNCHANGED tvars
    /\ UNCHANGED pvars

\* the command lines main is run with
Program == "rust_json"

ArgumentPieces ==
    TextPieces
    \cup {<<"{", "\"", "a", "\"", ":", "1">>, <<"[", "1">>}

Arguments == Concatenations(ArgumentPieces, MaxPieces)

CommandLines ==
    {<<Program>>}
    \cup {<<Program, text>> : text \in Arguments}
    \cup {<<Program, <<"1">>, text>> : text \in {<<>>, <<"1">>}}

CliInit ==
    /\ args \in CommandLines
    /\ printed = <<>>
    /\ status = Started
    /\ mpc = "main"
    /\ TokenizerIdle
    /\ ParserIdle

CliNext ==
    \/ MainUsage
    \/ MainCallTokenize
    \/ MainTokenizeMatch
    \/ MainTokenizeFail
    \/ MainTokenizePanic
    \/ MainTokenizeEnd
    \/ MainCallParse
    \/ ParserSteps
    \/ MainParseEnd
    \/ MainPrintResult
    \/ MainPrintTokenizeError
    \/ MainPanics

CliSpec == CliInit /\ [][CliNext]_vars

(***************************************************************************)
(* The grammar of section 4.2, on token sequences, and the value a         *)
(* derivation denotes.  These are the specification's side of the claims:  *)
(* they do not use the parser above.                                       *)
(***************************************************************************)
IsScalar(token) == token.type_ \in {"Null", "True", "False", "Number", "String"}

Inner(s) == SubSeq(s, 2, Len(s) - 1)
Before(s, k) == SubSeq(s, 1, k - 1)
After(s, k) == SubSeq(s, k + 1, Len(s))

RECURSIVE IsValue(_), IsElements(_), IsMembers(_)

\* value := null | true | false | number | string | array | object
IsValue(s) ==
    /\ Len(s) >= 1
    /\ \/ Len(s) = 1 /\ IsScalar(s[1])
       \/ /\ Len(s) >= 2
          /\ s[1].type_ = "ArrayStart"
          /\ s[Len(s)].type_ = "ArrayEnd"
          /\ (Len(s) = 2 \/ IsElements(Inner(s)))
       \/ /\ Len(s) >= 2
          /\ s[1].type_ = "ObjectStart"
          /\ s[Len(s)].type_ = "ObjectEnd"
          /\ (Len(s) = 2 \/ IsMembers(Inner(s)))

\* value (',' value)*
IsElements(m) ==
    \/ IsValue(m)
    \/ \E k \in 2 .. Len(m) - 1 :
          m[k].type_ = "Comma" /\ IsValue(Before(m, k)) /\ IsElements(After(m, k))

\* string ':' value
IsMember(m) ==
    Len(m) >= 3 /\ m[1].type_ = "String" /\ m[2].type_ = "Colon" /\ IsValue(After(m, 2))

\* string ':' value (',' string ':' value)*
IsMembers(m) ==
    \/ IsMember(m)
    \/ \E k \in 4 .. Len(m) - 1 :
          m[k].type_ = "Comma" /\ IsMember(Before(m, k)) /\ IsMembers(After(m, k))

\* the comma that ends the first element of value (',' value)+
FirstElementEnd(m) ==
    CHOOSE k \in 2 .. Len(m) - 1 :
        m[k].type_ = "Comma" /\ IsValue(Before(m, k)) /\ IsElements(After(m, k))

\* the comma that ends the first member of a list of two or more members
FirstMemberEnd(m) ==
    CHOOSE k \in 4 .. Len(m) - 1 :
        m[k].type_ = "Comma" /\ IsMember(Before(m, k)) /\ IsMembers(After(m, k))

\* the members of string ':' value (',' string ':' value)*, in source order
RECURSIVE MemberList(_)
MemberList(m) ==
    IF IsMember(m) THEN <<m>>
    ELSE <<Before(m, FirstMemberEnd(m))>> \o MemberList(After(m, FirstMemberEnd(m)))

\* a text of an optional minus and ASCII digits, and its place in the i32 range,
\* decided on the digits
AllAsciiDigits(d) == d # <<>> /\ \A k \in 1 .. Len(d) : d[k] \in AsciiDigits

RECURSIVE StripZeros(_)
StripZeros(d) == IF Len(d) > 1 /\ Head(d) = "0" THEN StripZeros(Tail(d)) ELSE d

RECURSIVE DigitsLeq(_, _)
DigitsLeq(x, y) ==
    \/ x = <<>>
    \/ DigitValue(Head(x)) < DigitValue(Head(y))
    \/ (Head(x) = Head(y) /\ DigitsLeq(Tail(x), Tail(y)))

LargestDigits == <<"2", "1", "4", "7", "4", "8", "3", "6", "4", "7">>
SmallestDigits == <<"2", "1", "4", "7", "4", "8", "3", "6", "4", "8">>

IsI32Text(text) ==
    LET negative == text # <<>> /\ Head(text) = "-"
        digits == IF negative THEN Tail(text) ELSE text
        limit == IF negative THEN SmallestDigits ELSE LargestDigits
    IN /\ AllAsciiDigits(digits)
       /\ \/ Len(StripZeros(digits)) < Len(limit)
          \/ (Len(StripZeros(digits)) = Len(limit) /\ DigitsLeq(StripZeros(digits), limit))

\* the integer an i32 text denotes
RECURSIVE SignedValue(_, _, _)
SignedValue(acc, sign, digits) ==
    IF digits = <<>> THEN acc
    ELSE SignedValue(acc * 10 + sign * DigitValue(Head(digits)), sign, Tail(digits))

IntegerOf(text) ==
    IF Head(text) = "-" THEN SignedValue(0, -1, Tail(text)) ELSE SignedValue(0, 1, text)

NumbersConvertible(s) ==
    \A k \in 1 .. Len(s) : s[k].type_ = "Number" => IsI32Text(s[k].value)

Override(map, key, value) ==
    [k \in (DOMAIN map) \cup {key} |-> IF k = key THEN value ELSE map[k]]

Unquoted(value) == SubSeq(value, 2, Len(value) - 1)

RECURSIVE Denote(_), DenoteElements(_), DenoteMembers(_, _)

\* the Json a value of the grammar denotes
Denote(s) ==
    CASE s[1].type_ = "Null" -> JsonNull
      [] s[1].type_ = "True" -> JsonBoolean(TRUE)
      [] s[1].type_ = "False" -> JsonBoolean(FALSE)
      [] s[1].type_ = "Number" -> JsonInteger(IntegerOf(s[1].value))
      [] s[1].type_ = "String" -> JsonString(Unquoted(s[1].value))
      [] s[1].type_ = "ArrayStart" ->
           JsonArray(IF Len(s) = 2 THEN <<>> ELSE DenoteElements(Inner(s)))
      [] s[1].type_ = "ObjectStart" ->
           JsonObject(IF Len(s) = 2 THEN <<>> ELSE DenoteMembers(MemberList(Inner(s)), <<>>))

DenoteElements(m) ==
    IF IsValue(m) THEN <<Denote(m)>>
    ELSE <<Denote(Before(m, FirstElementEnd(m)))>> \o DenoteElements(After(m, FirstElementEnd(m)))

\* the members in source order, each bound over what came before
DenoteMembers(members, map) ==
    IF members = <<>> THEN map
    ELSE DenoteMembers(Tail(members),
                       Override(map, Unquoted(Head(members)[1].value),
                                Denote(After(Head(members), 2))))

Done == pc = "done"
Failed(kind) == presult.r = "Err" /\ presult.error.message.kind = kind

(***************************************************************************)
(* Claims on the tokenizer.                                                *)
(***************************************************************************)
RECURSIVE ConcatValues(_)
ConcatValues(toks) ==
    IF toks = <<>> THEN <<>> ELSE Head(toks).value \o ConcatValues(Tail(toks))

\* C1: whenever tokenize returns Ok, the values of the tokens it returns,
\* concatenated in order with the whitespace tokens, are the input byte for byte.
C1_Coverage ==
    tresult.r = "Ok" => ConcatValues(tresult.tokens) = Bytes(input)

\* the first quote after byte `from` that no backslash precedes, or -1
UnescapedQuotes(b, from) ==
    {j \in from + 1 .. Len(b) - 1 : b[j + 1] = "\"" /\ b[j] # "\\"}

NextUnescapedQuote(b, from) ==
    IF UnescapedQuotes(b, from) = {} THEN -1 ELSE Min(UnescapedQuotes(b, from))

\* C6: every String token starts at a quote of the input and runs up to and
\* including the next quote that no backslash precedes, both quotes included.
C6_StringScanning ==
    \A k \in 1 .. Len(ttokens) :
        ttokens[k].type_ = "String" =>
            LET b == Bytes(input)
                start == ttokens[k].offset
                close == NextUnescapedQuote(b, start)
            IN /\ At(b, start) = "\""
               /\ close # -1
               /\ ttokens[k].value = Slice(b, start, close + 1)

\* C7: every Number token was emitted with the number grammar matching exactly
\* at the cursor, and its value is that match; and with the cursor at `-` or a
\* digit and no match at the cursor, tokenize fails with malformed-number at
\* the cursor, also when a number occurs later in the input.
C7_NumberLexing ==
    /\ \A k \in 1 .. Len(ttokens) :
          ttokens[k].type_ = "Number" =>
              LET b == Bytes(input)
                  start == ttokens[k].offset
              IN /\ MatchEnd(b, start) # -1
                 /\ ttokens[k].value = Slice(b, start, MatchEnd(b, start))
    /\ (/\ tresult.r # "Running"
        /\ Nth(input, toffset) \in AsciiDigits \cup {"-"}
        /\ MatchEnd(Bytes(input), toffset) = -1)
       => tresult = [r |-> "Err",
                     error |-> TokenizeError(toffset, [kind |-> "CannotParseNumber"])]

(***************************************************************************)
(* Claims on the parser.                                                   *)
(***************************************************************************)
\* C2: for a token sequence whose Number tokens are all convertible, parse
\* returns Ok exactly when the whitespace-filtered sequence is one value of the
\* grammar, and then the Json it returns is the tree the derivation denotes.
C2_GrammarAcceptance ==
    (Done /\ NumbersConvertible(tokens)) =>
        /\ presult.r \in {"Ok", "Err"}
        /\ presult.r = "Ok" <=> IsValue(tokens)
        /\ presult.r = "Ok" => presult.json = Denote(tokens)

\* [[1],null] has been parsed to Array[Array[Integer(1)], Null]
C2_Witness ==
    /\ Done
    /\ Len(tokens) = 7
    /\ presult = [r |-> "Ok",
                  json |-> JsonArray(<<JsonArray(<<JsonInteger(1)>>), JsonNull>>)]

\* the lengths of the prefixes of s that are a complete value with tokens left after it
ValuePrefixes(s) ==
    {n \in 1 .. Len(s) - 1 : IsValue(Before(s, n + 1)) /\ NumbersConvertible(Before(s, n + 1))}

\* C3: when a first complete value is followed by more tokens, parse fails with
\* unexpected-extra-input positioned at the first leftover token, and returns no value.
C3_ExtraInput ==
    Done =>
        \A n \in ValuePrefixes(tokens) :
            presult = [r |-> "Err",
                       error |-> ParseError(n, [kind |-> "UnexpectedExtraInput"])]

\* the object's mapping has one entry for each key of the members, bound to the
\* value of the last member with that key
LastWriteWins(map, members) ==
    LET KeyOf(i) == Unquoted(members[i][1].value)
        Last(key) == CHOOSE i \in 1 .. Len(members) :
                         /\ KeyOf(i) = key
                         /\ \A j \in i + 1 .. Len(members) : KeyOf(j) # key
    IN /\ DOMAIN map = {KeyOf(i) : i \in 1 .. Len(members)}
       /\ \A key \in DOMAIN map : map[key] = Denote(After(members[Last(key)], 2))

\* where the object that closes at token index `close` (0-based) opens
ObjectOpen(s, close) ==
    CHOOSE i \in 1 .. close :
        s[i].type_ = "ObjectStart" /\ IsValue(SubSeq(s, i, close + 1))

\* C4: every object that parses has one entry per distinct key, bound to the
\* value of the last member with that key: both the object parse_object is
\* about to return at its closing brace and the object parse returns.
C4_LastWriteWins ==
    /\ (pc = "object_sep" /\ HasToken(tokens, offset) /\ Get(tokens, offset).type_ = "ObjectEnd")
       => LastWriteWins(Top(stack).object,
                        MemberList(SubSeq(tokens, ObjectOpen(tokens, offset) + 1, offset)))
    /\ (Done /\ presult.r = "Ok" /\ tokens[1].type_ = "ObjectStart" /\ Len(tokens) > 2)
       => /\ presult.json.t = "Object"
          /\ LastWriteWins(presult.json.o, MemberList(Inner(tokens)))

\* {"a":null,"a":true} has been parsed, and a is bound to true alone
C4_Witness ==
    /\ Done
    /\ Len(tokens) = 9
    /\ tokens[2].value = tokens[6].value
    /\ presult = [r |-> "Ok", json |-> JsonObject(<<"a">> :> JsonBoolean(TRUE))]

\* a place where the parser expects a token, and none is left
OutOfInput ==
    \/ pc \in {"_parse", "array_sep", "object_key", "object_colon", "object_sep"}
         /\ ~HasToken(tokens, offset)
    \/ pc \in {"parse_array", "parse_object"} /\ ~HasToken(tokens, offset + 1)

\* C5: at every expectation point with no token left parse fails with
\* unexpected-end-of-input positioned at the number of whitespace-filtered
\* tokens, and unexpected-end-of-input is reported with no other position.
C5_EndOfInput ==
    /\ [](Failed("UnexpectedEndOfInput") => presult.error.offset = Len(tokens))
    /\ [][OutOfInput => presult' = [r |-> "Err",
                                    error |-> ParseError(Len(tokens), EndOfInput)]]_vars

\* [1, has run out of input after the comma
C5_Witness ==
    /\ Failed("UnexpectedEndOfInput")
    /\ Len(tokens) = 3
    /\ tokens[3].type_ = "Comma"
    /\ presult.error.offset = 3

\* the value _parse has just returned to its caller
Delivered(stk, prs) ==
    IF stk = <<>> THEN prs
    ELSE IF Top(stk).fn = "parse_array" THEN Top(stk).array[Len(Top(stk).array)]
    ELSE Top(stk).object[Top(stk).key]

\* C8: where a value is expected and the token is a Number, parse yields the
\* integer when the text is an integer text in [-2147483648, 2147483647], and
\* for every other text fails with cannot-parse-as-number carrying the text,
\* positioned at the token's index.
C8_NumberConversion ==
    [][(pc = "_parse" /\ HasToken(tokens, offset) /\ Get(tokens, offset).type_ = "Number")
       => LET text == Get(tokens, offset).value IN
          IF IsI32Text(text)
          THEN /\ offset' = offset + 1
               /\ presult' = Running
               /\ Delivered(stack', parsed') = JsonInteger(IntegerOf(text))
          ELSE presult' = [r |-> "Err",
                           error |-> ParseError(offset, [kind |-> "CannotParseAsInteger",
                                                         text |-> text])]]_vars

\* 2147483648 as the fourth token, where a value is expected, has been refused
C8_Witness ==
    /\ Failed("CannotParseAsInteger")
    /\ presult.error.offset = 3
    /\ tokens[4].value = SmallestDigits
    /\ presult.error.message.text = SmallestDigits

\* C9: the key positions of an object are the token after `{` when it is not
\* `}`, and the token after every `,` of the object; a token there that is not
\* a String makes parse fail with cannot-parse-as-string carrying the token's
\* text, positioned at the token's index.
C9_KeysAreStrings ==
    /\ [](pc = "object_key" =>
             offset >= 1 /\ tokens[offset].type_ \in {"ObjectStart", "Comma"})
    /\ [][(pc = "parse_object" /\ HasToken(tokens, offset + 1)
              /\ Get(tokens, offset + 1).type_ # "ObjectEnd")
          => (pc' = "object_key" /\ offset' = offset + 1)]_vars
    /\ [][(pc = "object_sep" /\ HasToken(tokens, offset)
              /\ Get(tokens, offset).type_ = "Comma")
          => (pc' = "object_key" /\ offset' = offset + 1)]_vars
    /\ [][(pc = "object_key" /\ HasToken(tokens, offset)
              /\ Get(tokens, offset).type_ # "String")
          => presult' = [r |-> "Err",
                         error |-> ParseError(offset,
                                              [kind |-> "CannotParseAsString",
                                               text |-> Get(tokens, offset).value])]]_vars

\* a key after a comma that is not a String has been refused
C9_Witness ==
    /\ Failed("CannotParseAsString")
    /\ presult.error.offset >= 2
    /\ tokens[presult.error.offset].type_ = "Comma"
    /\ tokens[presult.error.offset + 1].type_ # "String"
    /\ presult.error.message.text = tokens[presult.error.offset + 1].value

StartsValue(token) ==
    token.type_ \in {"Null", "True", "False", "Number", "String", "ArrayStart", "ObjectStart"}

\* parse_array is at an element: the first one, or the one after a comma
AtArrayElement ==
    pc = "_parse" /\ stack # <<>> /\ Top(stack).fn = "parse_array"

WrongAtArrayElement ==
    AtArrayElement /\ HasToken(tokens, offset) /\ ~StartsValue(Get(tokens, offset))

WrongAtArraySeparator ==
    /\ pc = "array_sep"
    /\ HasToken(tokens, offset)
    /\ Get(tokens, offset).type_ \notin {"Comma", "ArrayEnd"}

FailsAt(kind) ==
    presult' = [r |-> "Err",
                error |-> ParseError(offset, [kind |-> kind,
                                              text |-> Get(tokens, offset).value])]

\* C10 as stated: in an array, a present token of the wrong kind at any
\* expectation point (first element or close, element after a comma, separator
\* or close) makes parse fail with unexpected-token-in-array.
C10_WrongTokenInArray ==
    [][(WrongAtArrayElement \/ WrongAtArraySeparator)
       => (presult'.r = "Err" /\ presult'.error.message.kind = "UnexpectedTokenInArray")]_vars

\* C10 as amended: directly after an element, a present token other than `,`
\* and `]` makes parse fail with unexpected-token-in-array carrying the token's
\* text at the token's index; where an element is expected, a present token
\* that cannot start a value makes parse fail with found-unexpected-token.
C10_WrongTokenInArrayAmended ==
    /\ [][WrongAtArraySeparator => FailsAt("UnexpectedTokenInArray")]_vars
    /\ [][WrongAtArrayElement => FailsAt("FoundUnexpectedToken")]_vars

\* [1 1 has been refused at its third token
C10_Witness ==
    /\ Failed("UnexpectedTokenInArray")
    /\ presult.error.offset = 2
    /\ tokens[1].type_ = "ArrayStart"
    /\ tokens[3].type_ = "Number"

\* a place where _parse is called: the whole input, an element of an array, or
\* the value of a member
ValueExpected == pc = "_parse"

\* C11: a value is expected at the first token, at the token after `[` when it
\* is not `]`, after each `,` of an array and after each `:` of an object; a
\* present token there that cannot start a value makes parse fail with
\* found-unexpected-token carrying the token's text, positioned at the token's
\* index, and found-unexpected-token is reported of no other token.
C11_UnrecognizedToken ==
    /\ [](ValueExpected =>
             \/ offset = 0 /\ stack = <<>>
             \/ offset >= 1 /\ stack # <<>> /\ Top(stack).fn = "parse_array"
                  /\ tokens[offset].type_ \in {"ArrayStart", "Comma"}
             \/ offset >= 1 /\ stack # <<>> /\ Top(stack).fn = "parse_object"
                  /\ tokens[offset].type_ = "Colon")
    /\ [][(ValueExpected /\ HasToken(tokens, offset) /\ ~StartsValue(Get(tokens, offset)))
          => FailsAt("FoundUnexpectedToken")]_vars
    /\ [](Failed("FoundUnexpectedToken") =>
             /\ HasToken(tokens, presult.error.offset)
             /\ Get(tokens, presult.error.offset).type_
                    \in {"ArrayEnd", "ObjectEnd", "Colon", "Comma"}
             /\ presult.error.message.text = Get(tokens, presult.error.offset).value)

\* a stray } as the whole input has been refused at position 0
C11_Witness ==
    /\ Failed("FoundUnexpectedToken")
    /\ tokens = <<Token("ObjectEnd", <<"}">>, 0)>>
    /\ presult.error = ParseError(0, [kind |-> "FoundUnexpectedToken", text |-> <<"}">>])

(***************************************************************************)
(* More claims on the tokenizer.  The cursor is a byte offset: it is the   *)
(* sum of the byte lengths of the tokens matched so far, and every token   *)
(* is stamped with it.  What stands at the cursor is the input from that   *)
(* byte on.                                                                *)
(***************************************************************************)
AtCursor == At(Bytes(input), toffset)
FromCursor == Slice(Bytes(input), toffset, Len(Bytes(input)))

TokenizeFails(kind) ==
    tresult' = [r |-> "Err", error |-> TokenizeError(toffset, kind)]

\* C12: with the cursor at a quote and no quote anywhere after it in the
\* input, tokenize fails with unterminated-string at the cursor, whatever
\* tokens were matched before.
C12_UnterminatedString ==
    [][(/\ tresult = Running
        /\ AtCursor = "\""
        /\ \A j \in toffset + 1 .. Len(Bytes(input)) - 1 : At(Bytes(input), j) # "\"")
       => TokenizeFails([kind |-> "NoStringTerminatingQuote"])]_vars

Handled ==
    {",", ":", "[", "]", "{", "}", "f", "n", "t", "\"", "-"}
    \cup AsciiDigits \cup {" ", "\t", "\n", "\r"}

\* C13: with the cursor at a character that is not structural, not f, n or t,
\* not a quote, not a minus, not an ASCII digit and not ASCII whitespace,
\* tokenize fails with unhandled-character at the cursor.
C13_UnhandledCharacter ==
    [][(/\ tresult = Running
        /\ toffset < Len(Bytes(input))
        /\ IsCharBoundary(Bytes(input), toffset)
        /\ AtCursor \notin Handled)
       => TokenizeFails([kind |-> "UnhandledCharacter"])]_vars

\* the tokens matched so far end where the cursor is
RECURSIVE ByteLength(_)
ByteLength(toks) ==
    IF toks = <<>> THEN 0 ELSE Len(Head(toks).value) + ByteLength(Tail(toks))

\* C14: the lexeme that fails to match ends tokenize at once, with the error
\* alone and no token list; the error's offset is the cursor, which is the
\* byte length of the tokens matched before; and a token list is returned
\* only by Ok.
C14_AllOrNothing ==
    /\ [](tresult.r = "Err" =>
             /\ DOMAIN tresult = {"r", "error"}
             /\ tresult.error.offset = toffset
             /\ tresult.error.offset = ByteLength(ttokens))
    /\ [][(tresult = Running /\ Nth(input, toffset) # "None"
              /\ token_result(input, toffset).r = "Err")
          => (/\ tresult' = [r |-> "Err", error |-> token_result(input, toffset).error]
              /\ UNCHANGED <<toffset, ttokens>>)]_vars
    /\ [][tresult.r = "Err" => UNCHANGED vars]_vars

\* truetru has failed at offset 4, after one token, and returns the error alone
C14_Witness ==
    /\ input = <<"t", "r", "u", "e", "t", "r", "u">>
    /\ Len(ttokens) = 1
    /\ tresult = [r |-> "Err",
                  error |-> TokenizeError(4, [kind |-> "ExpectedLiteral",
                                              literal |-> <<"t", "r", "u", "e">>])]

KeywordOf(c) ==
    CASE c = "n" -> <<"n", "u", "l", "l">>
      [] c = "t" -> <<"t", "r", "u", "e">>
      [] c = "f" -> <<"f", "a", "l", "s", "e">>

KindOf(c) == CASE c = "n" -> "Null" [] c = "t" -> "True" [] c = "f" -> "False"

\* C19: with the cursor at n, t or f, tokenize emits a Null, True or False
\* token at the cursor exactly when the input at the cursor starts with null,
\* true or false, whatever follows the keyword, and otherwise fails with
\* expected-literal of that keyword at the cursor.
C19_KeywordLiterals ==
    [][(tresult = Running /\ AtCursor \in {"n", "t", "f"})
       => IF StartsWith(FromCursor, KeywordOf(AtCursor))
          THEN /\ ttokens' = Append(ttokens, Token(KindOf(AtCursor), KeywordOf(AtCursor), toffset))
               /\ toffset' = toffset + Len(KeywordOf(AtCursor))
               /\ tresult' = Running
          ELSE TokenizeFails([kind |-> "ExpectedLiteral", literal |-> KeywordOf(AtCursor)])]_vars

Contiguous(toks) ==
    \A k \in 1 .. Len(toks) :
        /\ toks[k].offset = IF k = 1 THEN 0 ELSE toks[k - 1].offset + Len(toks[k - 1].value)
        /\ Len(toks[k].value) >= 1
        /\ k > 1 => toks[k].offset > toks[k - 1].offset

\* C20: in the tokens matched so far, and in every token sequence tokenize
\* returns, the first token has offset 0 and every token's offset is the
\* offset of the token before it plus that token's byte length, so the offsets
\* increase strictly.
C20_ContiguousOffsets ==
    /\ Contiguous(ttokens)
    /\ tresult.r = "Ok" => Contiguous(tresult.tokens)

\* `true "` and more has been tokenized to three tokens or more, one of them
\* longer than a byte
C20_Witness ==
    /\ tresult.r = "Ok"
    /\ Len(tresult.tokens) >= 3
    /\ tresult.tokens[1].type_ = "True"
    /\ tresult.tokens[2].offset = 4
    /\ tresult.tokens[3].offset > 4

(***************************************************************************)
(* More claims on the parser.                                              *)
(***************************************************************************)
\* the state of the container the parser is in
ExpectFirstElementOrClose == pc \in {"parse_array", "parse_object"}
ExpectSeparatorOrClose == pc \in {"array_sep", "object_sep"}
ExpectElement ==
    /\ stack # <<>>
    /\ \/ pc = "_parse"
       \/ pc \in {"object_key", "object_colon"} /\ Top(stack).fn = "parse_object"

\* the container has been closed: control is back in what holds it
Closed(depth) ==
    /\ Len(stack') = depth
    /\ presult' = Running
    /\ pc' = IF depth = 0 THEN "parse_end"
             ELSE IF Top(stack').fn = "parse_array" THEN "array_sep" ELSE "object_sep"

\* the kinds of the tokens a step consumes
Consumed(kind) ==
    \E i \in offset + 1 .. offset' : i <= Len(tokens) /\ tokens[i].type_ = kind

\* an opening token with a comma directly after it, or a comma with a closing
\* token directly after it
LeadingOrTrailingComma(s) ==
    \E i \in 1 .. Len(s) - 1 :
        \/ s[i].type_ \in {"ArrayStart", "ObjectStart"} /\ s[i + 1].type_ = "Comma"
        \/ s[i].type_ = "Comma" /\ s[i + 1].type_ \in {"ArrayEnd", "ObjectEnd"}

\* C17: directly after its opening token a container takes its close token and
\* is closed, or goes on to expect an element; directly after an element it
\* takes a comma and expects an element, or its close token and is closed, and
\* refuses every other token; it comes to expect a separator or its close only
\* from an element.  A close token is consumed in no other state than these
\* two, and of the matching kind only; a comma only directly after an element.
\* So a token sequence with a close token directly after a comma, or a comma
\* directly after an opening token, is never parsed.
C17_ContainerStates ==
    /\ [][(pc = "parse_array" /\ HasToken(tokens, offset + 1))
          => IF Get(tokens, offset + 1).type_ = "ArrayEnd"
             THEN offset' = offset + 2 /\ Closed(Len(stack))
             ELSE /\ offset' = offset + 1
                  /\ stack' = Append(stack, ArrayFrame)
                  /\ ExpectElement' /\ pc' = "_parse"]_vars
    /\ [][(pc = "parse_object" /\ HasToken(tokens, offset + 1))
          => IF Get(tokens, offset + 1).type_ = "ObjectEnd"
             THEN offset' = offset + 2 /\ Closed(Len(stack))
             ELSE /\ offset' = offset + 1
                  /\ stack' = Append(stack, ObjectFrame)
                  /\ ExpectElement' /\ pc' = "object_key"]_vars
    /\ [][(pc = "array_sep" /\ HasToken(tokens, offset))
          => CASE Get(tokens, offset).type_ = "Comma" ->
                    offset' = offset + 1 /\ stack' = stack /\ pc' = "_parse"
               [] Get(tokens, offset).type_ = "ArrayEnd" ->
                    offset' = offset + 1 /\ Closed(Len(stack) - 1)
               [] OTHER -> presult'.r = "Err"]_vars
    /\ [][(pc = "object_sep" /\ HasToken(tokens, offset))
          => CASE Get(tokens, offset).type_ = "Comma" ->
                    offset' = offset + 1 /\ stack' = stack /\ pc' = "object_key"
               [] Get(tokens, offset).type_ = "ObjectEnd" ->
                    offset' = offset + 1 /\ Closed(Len(stack) - 1)
               [] OTHER -> presult'.r = "Err"]_vars
    /\ [][(ExpectSeparatorOrClose' /\ ~ExpectSeparatorOrClose)
          => (ExpectElement \/ ExpectFirstElementOrClose)]_vars
    /\ [](pc = "array_sep" => stack # <<>> /\ Top(stack).fn = "parse_array")
    /\ [](pc = "object_sep" => stack # <<>> /\ Top(stack).fn = "parse_object")
    /\ [][Consumed("ArrayEnd") => pc \in {"parse_array", "array_sep"}]_vars
    /\ [][Consumed("ObjectEnd") => pc \in {"parse_object", "object_sep"}]_vars
    /\ [][Consumed("Comma") => ExpectSeparatorOrClose]_vars
    /\ []((Done /\ LeadingOrTrailingComma(tokens)) => presult.r = "Err")

\* [[1],] has been refused at the bracket that follows its last comma
C17_Witness ==
    /\ Done
    /\ presult.r = "Err"
    /\ Len(tokens) = 6
    /\ presult.error.offset = 5
    /\ tokens[5].type_ = "Comma"
    /\ tokens[6].type_ = "ArrayEnd"
    /\ tokens[1].type_ = "ArrayStart"

\* where the value of the member that ends before token index `end` begins:
\* after a key and a colon
MemberValueEnds(s, end) ==
    \E i \in 1 .. end - 2 :
        /\ s[i].type_ = "String"
        /\ s[i + 1].type_ = "Colon"
        /\ IsValue(SubSeq(s, i + 2, end))

\* C18: in an object, directly after a key a present token other than `:`, and
\* directly after a member's value a present token other than `,` and `}`,
\* make parse fail with unexpected-token-in-object carrying the token's text,
\* positioned at the token's index in the filtered sequence.
C18_WrongTokenInObject ==
    /\ [](pc = "object_colon" =>
             /\ offset >= 2
             /\ tokens[offset].type_ = "String"
             /\ tokens[offset - 1].type_ \in {"ObjectStart", "Comma"})
    /\ [](pc = "object_sep" => MemberValueEnds(tokens, offset))
    /\ [][(pc = "object_colon" /\ HasToken(tokens, offset)
              /\ Get(tokens, offset).type_ # "Colon")
          => FailsAt("UnexpectedTokenInObject")]_vars
    /\ [][(pc = "object_sep" /\ HasToken(tokens, offset)
              /\ Get(tokens, offset).type_ \notin {"Comma", "ObjectEnd"})
          => FailsAt("UnexpectedTokenInObject")]_vars

\* {"a":true 1 has been refused at its fifth token
C18_Witness ==
    /\ Failed("UnexpectedTokenInObject")
    /\ Len(tokens) = 5
    /\ tokens[4].type_ = "True"
    /\ presult.error = ParseError(4, [kind |-> "UnexpectedTokenInObject", text |-> <<"1">>])

\* the sequence with its Whitespace tokens removed: the other tokens, in their
\* order, each as it is
RECURSIVE WithoutWhitespace(_)
WithoutWhitespace(s) ==
    IF s = <<>> THEN <<>>
    ELSE IF Head(s).type_ = "Whitespace" THEN WithoutWhitespace(Tail(s))
    ELSE <<Head(s)>> \o WithoutWhitespace(Tail(s))

\* C15: for every token sequence parse returns what it returns for the sequence
\* with the Whitespace tokens removed, the same value or the same error kind
\* and position; the parser that runs on the sequence returns that result; and
\* the tokens it keeps are the other tokens, each with its kind, value and
\* original offset.
C15_WhitespaceDiscarded ==
    /\ [](pc = "parse" => parse(tokens) = parse(WithoutWhitespace(tokens)))
    /\ [][pc = "parse" => tokens' = WithoutWhitespace(tokens)]_vars
    /\ [](Done => presult = parse(tokens))

\* [ ] with a space between the brackets has been parsed to the empty array,
\* the closing bracket with its offset 2
C15_Witness ==
    /\ Done
    /\ tokens = <<Token("ArrayStart", <<"[">>, 0), Token("ArrayEnd", <<"]">>, 2)>>
    /\ presult = [r |-> "Ok", json |-> JsonArray(<<>>)]

(***************************************************************************)
(* The claim on the command line program.                                  *)
(***************************************************************************)
\* a printed line that shows the error's offset and message
ShowsError(error) ==
    \E k \in 1 .. Len(printed) :
        \/ printed[k] = TokenizeErrorLine(error)
        \/ printed[k] = DebugLine([r |-> "Err", error |-> error])

\* C16: run with one argument, the program exits with a non-zero status and
\* the error's offset and message printed when tokenizing or parsing the
\* argument fails, and with status 0 and the parsed value printed when both
\* succeed.
C16_ExitStatus ==
    (status.state = "exited" /\ Len(args) = 2) =>
        /\ tresult.r = "Err" => (ShowsError(tresult.error) /\ status.code # 0)
        /\ presult.r = "Err" => (ShowsError(presult.error) /\ status.code # 0)
        /\ presult.r = "Ok" => (printed = <<DebugLine(presult)>> /\ status.code = 0)

\* the tokens a step passes over: those from the cursor up to where it moves
Passed == SubSeq(tokens, offset + 1, offset')

\* C21: once the Whitespace tokens are filtered out no step of the parser
\* changes the tokens; the cursor starts at 0, never decreases, never exceeds
\* the number of filtered tokens, and moves by one for each token a step
\* consumes: by one over a scalar, a comma, a colon, a key, a closing or an
\* opening token, by two over an opening token with its closing token directly
\* after it, and not at all where a step only hands control on or refuses a
\* token; and whenever parse returns Ok the cursor is the number of filtered
\* tokens.
C21_CursorOnlyAdvances ==
    /\ [][pc # "parse" => tokens' = tokens]_vars
    /\ [][pc = "parse" => offset' = offset /\ offset = 0]_vars
    /\ [][/\ offset' >= offset
          /\ offset' <= Len(tokens')
          /\ offset' - offset <= 2
          /\ offset' - offset = 2 =>
                /\ pc \in {"parse_array", "parse_object"}
                /\ Passed[1].type_ \in {"ArrayStart", "ObjectStart"}
                /\ Passed[2].type_ \in {"ArrayEnd", "ObjectEnd"}
          /\ (offset' = offset /\ pc # "parse" /\ presult' = Running /\ pc' # "done")
                => pc = "_parse" /\ pc' \in {"parse_array", "parse_object"}]_vars
    /\ [](offset <= Len(tokens) \/ pc = "parse")
    /\ [](presult.r = "Ok" => offset = Len(tokens))

\* [[1],null] has been parsed, and the cursor is past its seven tokens
C21_Witness ==
    /\ presult.r = "Ok"
    /\ Len(tokens) = 7
    /\ offset = 7
    /\ tokens[1].type_ = "ArrayStart"
    /\ tokens[6].type_ = "Null"

\* the iterations of the loop that have matched a lexeme or failed to; the
\* last look at the cursor, which finds the end of the input, is not counted
Iterations ==
    Len(ttokens) + (IF tresult.r \in {"Err", "Panic"} THEN 1 ELSE 0)

\* every token has a byte or more, every iteration that matches moves the
\* cursor forward, the cursor stays within the input, and the iterations are
\* no more than the input has bytes
BoundedProgress ==
    /\ [](\A k \in 1 .. Len(ttokens) : Len(ttokens[k].value) >= 1)
    /\ [][ttokens' # ttokens => toffset' > toffset]_vars
    /\ [](toffset <= Len(Bytes(input)))
    /\ [](Iterations <= Len(Bytes(input)))

\* C22: every token tokenize emits has a value of a byte or more, so the
\* cursor increases with every iteration; the iterations are no more than the
\* input has bytes; and for every input tokenize ends, with Ok or with an
\* error.
C22_Termination ==
    /\ BoundedProgress
    /\ <>(tresult.r # "Running")
    /\ [](tresult.r \in {"Running", "Ok", "Err"})

====
